---- MODULE Spec2Model ----
(***************************************************************************)
(* Model of jko_api_utils/utils/save_data.py: the save_to_file_decorator   *)
(* wrapper, the path planning it does (create_dirs_if_needed,              *)
(* process_path_list, preprocess_duplicate_paths) and the file writer      *)
(* (determine_mode_and_encoding, save_data_to_file), over an explicit      *)
(* model of the local filesystem.                                          *)
(***************************************************************************)
EXTENDS Integers, Sequences, FiniteSets, TLC

VARIABLES fs, fs_start, args, out, pc

vars == <<fs, fs_start, args, out, pc>>

(***************************************************************************)
(* Bounds                                                                  *)
(***************************************************************************)
\* longest path_list a caller passes
MaxPaths == 3
\* most items a generator producer yields
MaxItems == 3
\* longest path list handed to process_path_list when it is called directly
MaxPlan == 2

(***************************************************************************)
(* Values                                                                  *)
(***************************************************************************)
\* Python's None
None == "None"

\* DuplicateStrategy (save_data.py:8-11)
DuplicateStrategy == {"overwrite", "rename", "skip"}

\* One path component "<stem>_<n1>_<n2>...<ext>": stem is the text before
\* any numeric rename suffix, n the numeric suffixes in order, ext the
\* file extension (Path.suffix).
Name(stem, n, ext) == [stem |-> stem, n |-> n, ext |-> ext]

\* A path is the sequence of its components; <<>> is the empty string "".
\* "t" is a directory that exists, "d" one that does not.
PathTA == <<Name("t", <<>>, ""), Name("a", <<>>, ".txt")>>
PathTA1 == <<Name("t", <<>>, ""), Name("a", <<1>>, ".txt")>>
PathDA == <<Name("d", <<>>, ""), Name("a", <<>>, ".txt")>>
PathTB == <<Name("t", <<>>, ""), Name("b", <<>>, ".txt")>>
PathT == <<Name("t", <<>>, "")>>

\* the destination paths callers pass
InputPaths == {PathTA, PathTA1, PathTB, PathDA}

\* a bare file name, relative to the working directory; a regular file "f"
\* and a path below it
PathA == <<Name("a", <<>>, ".txt")>>
PathF == <<Name("f", <<>>, "")>>
PathFA == <<Name("f", <<>>, ""), Name("a", <<>>, ".txt")>>

\* the destinations of direct calls of the planner and the writer
DirectPaths == {PathTA, PathDA, PathA, PathFA}

\* filesystem entries: a directory or a regular file, and whether the
\* process may write it (for a directory: create entries in it)
DirEntry == [kind |-> "dir", content |-> <<>>, writable |-> TRUE]
FileEntry(content) == [kind |-> "file", content |-> content, writable |-> TRUE]
ReadOnly(entry) == [entry EXCEPT !.writable = FALSE]
\* what a file written before the call holds
OldContent == <<"old">>

\* data items: the k-th value a producer yields, a str or a bytes
Item(type, k) == [type |-> type, id |-> k]

\* what the wrapped function does when called: return one str or bytes,
\* return a generator of n items, or return something else (an int)
Producers ==
    {[kind |-> "value", type |-> t, n |-> 1] : t \in {"str", "bytes"}}
    \cup {[kind |-> "generator", type |-> t, n |-> k] : t \in {"str", "bytes"}, k \in 0..MaxItems}
    \cup {[kind |-> "other", type |-> "int", n |-> 1]}

\* the items a producer yields, in production order
Produced(producer) == [k \in 1..producer.n |-> Item(producer.type, k)]

\* sequences over S of length at most n
SeqsUpTo(S, n) == UNION {[1..k -> S] : k \in 0..n}

\* the path_list argument: None, a list of paths, or one bare path string
PathListArgs ==
    {[kind |-> "None", paths |-> <<>>]}
    \cup {[kind |-> "list", paths |-> l] : l \in SeqsUpTo(InputPaths, MaxPaths)}
    \cup {[kind |-> "str", paths |-> <<p>>] : p \in InputPaths}

\* the keyword arguments of one wrapper call and the wrapped function
CallArgs ==
    [path_list : PathListArgs, return_data : BOOLEAN, create_dirs : BOOLEAN,
     duplicate_strategy : DuplicateStrategy, producer : Producers]

\* the filesystems a call can start from: directory t exists, directory d
\* does not, t/a.txt is absent, a file or a directory, t/a_1.txt is absent
\* or a file, t/b.txt is absent
InitFS ==
    {[p \in {PathT} \cup (IF ta = "absent" THEN {} ELSE {PathTA})
                   \cup (IF ta1 = "absent" THEN {} ELSE {PathTA1})
        |-> IF p = PathT \/ (p = PathTA /\ ta = "dir") THEN DirEntry ELSE FileEntry(OldContent)]
     : ta \in {"absent", "file", "dir"}, ta1 \in {"absent", "file"}}

(***************************************************************************)
(* Filesystem primitives                                                   *)
(***************************************************************************)
\* os.path.dirname: the path without its last component ("" for a bare name)
os_path_dirname(path) == SubSeq(path, 1, Len(path) - 1)

\* os.path.exists: os.path.exists("") is False
os_path_exists(f, path) == path \in DOMAIN f

\* os.path.isdir
os_path_isdir(f, path) == path \in DOMAIN f /\ f[path].kind = "dir"

\* os.makedirs(path, exist_ok=True): every missing prefix of path, the leaf
\* included, becomes a directory
os_makedirs(f, path) ==
    LET prefixes == {SubSeq(path, 1, k) : k \in 1..Len(path)}
    IN [q \in (DOMAIN f) \cup prefixes |-> IF q \in DOMAIN f THEN f[q] ELSE DirEntry]

\* Path.with_name(f"{path.stem}_{j}{path.suffix}")
with_name(path, j) ==
    [path EXCEPT ![Len(path)] = [@ EXCEPT !.n = Append(@, j)]]

(***************************************************************************)
(* Path planning                                                           *)
(***************************************************************************)
\* create_dirs_if_needed with the test of the flag inverted
create_dirs_if_needed_inverted(f, path, create_missing_dirs) ==
    IF os_path_dirname(path) # <<>> /\ ~os_path_exists(f, os_path_dirname(path))
    THEN IF create_missing_dirs
         THEN [err |-> "ValueError", fs |-> f]
         ELSE [err |-> None, fs |-> os_makedirs(f, path)]
    ELSE [err |-> None, fs |-> f]

\* create_dirs_if_needed: the result is the exception raised (or None) and
\* the filesystem afterwards
create_dirs_if_needed(f, path, create_missing_dirs) ==
    IF os_path_dirname(path) # <<>> /\ ~os_path_exists(f, os_path_dirname(path))
    THEN IF ~create_missing_dirs
         THEN [err |-> "ValueError", fs |-> f]
         ELSE [err |-> None, fs |-> os_makedirs(f, path)]
    ELSE [err |-> None, fs |-> f]

\* the loop of process_path_list over path_list[i..], stopping at the first
\* exception
RECURSIVE create_dirs_loop(_, _, _, _)
create_dirs_loop(f, path_list, i, create_dirs) ==
    IF i > Len(path_list) THEN [err |-> None, fs |-> f]
    ELSE LET r == create_dirs_if_needed(f, path_list[i], create_dirs)
         IN IF r.err # None THEN r
            ELSE create_dirs_loop(r.fs, path_list, i + 1, create_dirs)

\* the RENAME branch with the new name computed once instead of in a loop
rename_loop_once(f, path, j) ==
    IF os_path_exists(f, path) THEN with_name(path, j) ELSE path

\* the while loop of the RENAME branch: rename until the path does not exist
RECURSIVE rename_loop(_, _, _)
rename_loop(f, path, j) ==
    IF os_path_exists(f, path) THEN rename_loop(f, with_name(path, j), j + 1)
    ELSE path

\* del path_list[i] for every i of skip, highest first
RECURSIVE del_indices(_, _, _)
del_indices(path_list, skip, i) ==
    IF i > Len(path_list) THEN <<>>
    ELSE IF i \in skip THEN del_indices(path_list, skip, i + 1)
    ELSE <<path_list[i]>> \o del_indices(path_list, skip, i + 1)

\* preprocess_duplicate_paths without the removal of the skipped paths
preprocess_duplicate_paths_keep(f, path_list, duplicate_strategy) ==
    [i \in 1..Len(path_list) |->
        IF os_path_exists(f, path_list[i]) /\ duplicate_strategy = "rename"
        THEN rename_loop(f, path_list[i], 1)
        ELSE path_list[i]]

\* preprocess_duplicate_paths: the list it returns
preprocess_duplicate_paths(f, path_list, duplicate_strategy) ==
    LET paths_to_skip == {i \in 1..Len(path_list) :
            os_path_exists(f, path_list[i]) /\ duplicate_strategy = "skip"}
        substituted == [i \in 1..Len(path_list) |->
            IF os_path_exists(f, path_list[i]) /\ duplicate_strategy = "rename"
            THEN rename_loop(f, path_list[i], 1)
            ELSE path_list[i]]
    IN del_indices(substituted, paths_to_skip, 1)

\* process_path_list: a bare string becomes a one-element list, None stays
\* None; the result is the exception, the filesystem and the planned list
process_path_list(f, path_list, create_dirs, duplicate_strategy) ==
    IF path_list.kind = "None"
    THEN [err |-> None, fs |-> f, path_list |-> path_list]
    ELSE LET r == create_dirs_loop(f, path_list.paths, 1, create_dirs)
         IN IF r.err # None
            THEN [err |-> r.err, fs |-> r.fs, path_list |-> path_list]
            ELSE [err |-> None, fs |-> r.fs,
                  path_list |-> [kind |-> "list",
                                 paths |-> preprocess_duplicate_paths(r.fs, path_list.paths, duplicate_strategy)]]

\* validate_arguments with the test of return_data not negated
validate_arguments_flipped(dest, return_data) ==
    IF dest.kind = "None" /\ return_data THEN "ValueError" ELSE None

\* validate_arguments: the exception raised, or None
validate_arguments(dest, return_data) ==
    IF dest.kind = "None" /\ ~return_data THEN "ValueError" ELSE None

(***************************************************************************)
(* File writer                                                             *)
(***************************************************************************)
\* determine_mode_and_encoding with the append branch choosing the binary
\* mode for text and the text mode for binary
determine_mode_and_encoding_swapped(data, data_format, append) ==
    LET text == data_format = "text" \/ (data_format = None /\ data.type = "str")
        mode == IF append THEN (IF text THEN "ab" ELSE "a")
                ELSE (IF text THEN "w" ELSE "wb")
        encoding == IF text THEN "utf-8" ELSE None
    IN [err |-> None, mode |-> mode, encoding |-> encoding]

\* determine_mode_and_encoding: data_format is None, "text" or "binary"
determine_mode_and_encoding(data, data_format, append) ==
    LET text == data_format = "text" \/ (data_format = None /\ data.type = "str")
        mode == IF append THEN (IF text THEN "a" ELSE "ab")
                ELSE (IF text THEN "w" ELSE "wb")
        encoding == IF text THEN "utf-8" ELSE None
    IN IF mode \notin {"w", "wb", "a", "ab"} THEN [err |-> "ValueError", mode |-> mode, encoding |-> encoding]
       ELSE IF encoding \notin {None, "utf-8"} THEN [err |-> "ValueError", mode |-> mode, encoding |-> encoding]
       ELSE [err |-> None, mode |-> mode, encoding |-> encoding]

\* what f.write leaves in the file: the bytes as they are, the text, or the
\* text of str(data) for bytes written through str()
Chunk(data, encoding) ==
    [data |-> data,
     form |-> IF data.type = "bytes" /\ encoding = None THEN "bytes"
              ELSE IF data.type = "str" THEN "text" ELSE "repr",
     encoding |-> encoding]

\* open(dest, mode) is refused with PermissionError: the file exists and is
\* not writable, or it has to be created in a directory that is not
permission_denied(f, dest) ==
    IF os_path_exists(f, dest) THEN ~f[dest].writable
    ELSE ~f[os_path_dirname(dest)].writable

\* save_data_to_file without the two tests made before open(): open() then
\* raises for a directory or a missing parent, and the error is wrapped
save_data_to_file_unchecked(f, data, dest, mode, encoding) ==
    LET binary == mode \in {"wb", "ab"}
        appending == mode \in {"a", "ab"}
        before == IF appending /\ os_path_exists(f, dest) THEN f[dest].content ELSE <<>>
        opened == [q \in (DOMAIN f) \cup {dest} |-> IF q = dest THEN FileEntry(before) ELSE f[q]]
        written == [opened EXCEPT ![dest] = FileEntry(before \o <<Chunk(data, encoding)>>)]
    IN IF mode \notin {"w", "wb", "a", "ab"} THEN [err |-> "ValueError", fs |-> f]
       ELSE IF binary /\ encoding # None THEN [err |-> "ValueError", fs |-> f]
       ELSE IF os_path_isdir(f, dest) THEN [err |-> "IOError", fs |-> f]
       ELSE IF ~os_path_isdir(f, os_path_dirname(dest)) THEN [err |-> "IOError", fs |-> f]
       ELSE IF permission_denied(f, dest) THEN [err |-> "PermissionError", fs |-> f]
       ELSE IF data.type = "bytes" /\ encoding = None
            THEN (IF binary THEN [err |-> None, fs |-> written]
                  ELSE [err |-> "TypeError", fs |-> opened])
       ELSE IF binary THEN [err |-> "TypeError", fs |-> opened]
       ELSE [err |-> None, fs |-> written]

\* save_data_to_file: the exception raised (or None) and the filesystem
\* afterwards. open() creates the file, and truncates it unless appending,
\* before write() can fail. An exception of open() or write() other than
\* TypeError, ValueError and PermissionError is raised again as IOError.
save_data_to_file(f, data, dest, mode, encoding) ==
    LET binary == mode \in {"wb", "ab"}
        appending == mode \in {"a", "ab"}
        before == IF appending /\ os_path_exists(f, dest) THEN f[dest].content ELSE <<>>
        opened == [q \in (DOMAIN f) \cup {dest} |-> IF q = dest THEN FileEntry(before) ELSE f[q]]
        written == [opened EXCEPT ![dest] = FileEntry(before \o <<Chunk(data, encoding)>>)]
    IN IF mode \notin {"w", "wb", "a", "ab"} THEN [err |-> "ValueError", fs |-> f]
       ELSE IF os_path_isdir(f, dest) THEN [err |-> "IsADirectoryError", fs |-> f]
       ELSE IF ~os_path_exists(f, os_path_dirname(dest)) THEN [err |-> "FileNotFoundError", fs |-> f]
       ELSE IF binary /\ encoding # None THEN [err |-> "ValueError", fs |-> f]
       ELSE IF ~os_path_isdir(f, os_path_dirname(dest)) THEN [err |-> "IOError", fs |-> f]
       ELSE IF permission_denied(f, dest) THEN [err |-> "PermissionError", fs |-> f]
       ELSE IF data.type = "bytes" /\ encoding = None
            THEN (IF binary THEN [err |-> None, fs |-> written]
                  ELSE [err |-> "TypeError", fs |-> opened])
       ELSE IF binary THEN [err |-> "TypeError", fs |-> opened]
       ELSE [err |-> None, fs |-> written]

(***************************************************************************)
(* The wrapper of save_to_file_decorator                                   *)
(***************************************************************************)
\* is_generator / isinstance(result, str) or isinstance(result, bytes)
is_generator(producer) == producer.kind = "generator"

\* the names the body of wrapper can read: its parameters and locals, the
\* enclosing func, and the names the module defines or imports
names_in_scope ==
    {"args", "path_list", "return_data", "create_dirs", "duplicate_strategy", "kwargs",
     "func", "result", "results", "data_to_return", "dest", "mode", "encoding"}
    \cup {"Enum", "os", "wraps", "Optional", "Path", "DuplicateStrategy",
          "create_dirs_if_needed", "determine_mode_and_encoding", "save_data_to_file",
          "convert_data_to_string", "is_generator", "validate_arguments",
          "preprocess_duplicate_paths", "process_path_list", "save_to_file_decorator",
          "handle_duplicate_decorator"}

\* reading the name data_format in the loop body: bound or not, and the
\* value a binding would hold
data_format_lookup == [bound |-> "data_format" \in names_in_scope, value |-> None]

\* the return value of a call: None, one bare item, or a list of items
RetNone == [kind |-> "None", items |-> <<>>]
RetOf(data_to_return) ==
    IF Len(data_to_return) = 1 THEN [kind |-> "item", items |-> data_to_return]
    ELSE [kind |-> "list", items |-> data_to_return]

\* the first n (dest, result) pairs the for statement takes from
\* zip(path_list, results)
zip_pairs(path_list, results, n) == [k \in 1..n |-> <<path_list[k], results[k]>>]

\* the loop over zip(path_list, results) without strict=True: it ends at the
\* shorter of the two
RECURSIVE wrapper_loop_nonstrict(_, _, _, _, _, _, _)
wrapper_loop_nonstrict(f, path_list, results, i, return_data, data_to_return, written) ==
    IF i > Len(path_list) \/ i > Len(results)
    THEN [err |-> None, fs |-> f, data |-> data_to_return, written |-> written,
          pairs |-> zip_pairs(path_list, results, i - 1)]
    ELSE IF ~data_format_lookup.bound
    THEN [err |-> "NameError", fs |-> f, data |-> data_to_return, written |-> written,
          pairs |-> zip_pairs(path_list, results, i)]
    ELSE LET me == determine_mode_and_encoding(results[i], data_format_lookup.value, FALSE)
             s == save_data_to_file(f, results[i], path_list[i], me.mode, me.encoding)
         IN IF me.err # None
            THEN [err |-> me.err, fs |-> f, data |-> data_to_return, written |-> written,
          pairs |-> zip_pairs(path_list, results, i)]
            ELSE IF s.err # None
            THEN [err |-> s.err, fs |-> s.fs, data |-> data_to_return, written |-> written,
          pairs |-> zip_pairs(path_list, results, i)]
            ELSE wrapper_loop_nonstrict(s.fs, path_list, results, i + 1, return_data,
                              IF return_data THEN Append(data_to_return, results[i]) ELSE data_to_return,
                              Append(written, <<path_list[i], results[i]>>))

\* for dest, result in zip(path_list, results, strict=True): the iteration
\* from index i on. written lists the (dest, item) pairs saved so far, pairs
\* the (dest, result) pairs the loop has bound, the one it failed on included.
RECURSIVE wrapper_loop(_, _, _, _, _, _, _)
wrapper_loop(f, path_list, results, i, return_data, data_to_return, written) ==
    IF i > Len(path_list)
    THEN IF i <= Len(results)
         THEN [err |-> "ValueError", fs |-> f, data |-> data_to_return, written |-> written,
          pairs |-> zip_pairs(path_list, results, i - 1)]
         ELSE [err |-> None, fs |-> f, data |-> data_to_return, written |-> written,
          pairs |-> zip_pairs(path_list, results, i - 1)]
    ELSE IF i > Len(results)
    THEN [err |-> "ValueError", fs |-> f, data |-> data_to_return, written |-> written,
          pairs |-> zip_pairs(path_list, results, i - 1)]
    ELSE IF ~data_format_lookup.bound
    THEN [err |-> "NameError", fs |-> f, data |-> data_to_return, written |-> written,
          pairs |-> zip_pairs(path_list, results, i)]
    ELSE LET me == determine_mode_and_encoding(results[i], data_format_lookup.value, FALSE)
             s == save_data_to_file(f, results[i], path_list[i], me.mode, me.encoding)
         IN IF me.err # None
            THEN [err |-> me.err, fs |-> f, data |-> data_to_return, written |-> written,
          pairs |-> zip_pairs(path_list, results, i)]
            ELSE IF s.err # None
            THEN [err |-> s.err, fs |-> s.fs, data |-> data_to_return, written |-> written,
          pairs |-> zip_pairs(path_list, results, i)]
            ELSE wrapper_loop(s.fs, path_list, results, i + 1, return_data,
                              IF return_data THEN Append(data_to_return, results[i]) ELSE data_to_return,
                              Append(written, <<path_list[i], results[i]>>))

\* the outcome of one call: the exception raised (or None), the value
\* returned, the filesystem, the stage the call ended in (validate_arguments,
\* process_path_list, func, loop or return), the path list as
\* process_path_list left it, the (dest, item) pairs saved and the
\* (dest, result) pairs the loop bound
Outcome(raised, ret, f, stage, path_list, written, pairs) ==
    [raised |-> raised, ret |-> ret, fs |-> f, stage |-> stage,
     path_list |-> path_list, written |-> written, pairs |-> pairs]

\* wrapper(*args, path_list, return_data, create_dirs, duplicate_strategy)
wrapper(f, a) ==
    LET v == validate_arguments(a.path_list, a.return_data)
        p == process_path_list(f, a.path_list, a.create_dirs, a.duplicate_strategy)
        results == Produced(a.producer)
        l == wrapper_loop(p.fs, p.path_list.paths, results, 1, a.return_data, <<>>, <<>>)
    IN IF v # None
       THEN Outcome(v, RetNone, f, "validate_arguments", a.path_list, <<>>, <<>>)
       ELSE IF p.err # None
       THEN Outcome(p.err, RetNone, p.fs, "process_path_list", a.path_list, <<>>, <<>>)
       ELSE IF a.producer.kind # "value" /\ ~is_generator(a.producer)
       THEN Outcome("TypeError", RetNone, p.fs, "func", p.path_list, <<>>, <<>>)
       ELSE IF p.path_list.kind # "None"
       THEN IF l.err # None
            THEN Outcome(l.err, RetNone, l.fs, "loop", p.path_list, l.written, l.pairs)
            ELSE Outcome(None, IF a.return_data THEN RetOf(l.data) ELSE RetNone,
                         l.fs, "return", p.path_list, l.written, l.pairs)
       ELSE Outcome(None, IF a.return_data THEN RetOf(results) ELSE RetNone,
                    p.fs, "return", p.path_list, <<>>, <<>>)

(***************************************************************************)
(* The state machine: one call of the decorated function on a filesystem   *)
(***************************************************************************)
NoArgs ==
    [path_list |-> [kind |-> "None", paths |-> <<>>], return_data |-> TRUE,
     create_dirs |-> FALSE, duplicate_strategy |-> "skip",
     producer |-> [kind |-> "value", type |-> "str", n |-> 1]]

NoOut == [raised |-> None, ret |-> RetNone, stage |-> "idle",
          path_list |-> [kind |-> "None", paths |-> <<>>], written |-> <<>>,
          pairs |-> <<>>]

Init ==
    /\ fs \in InitFS
    /\ fs_start = fs
    /\ args = NoArgs
    /\ out = NoOut
    /\ pc = "idle"

\* a caller invokes the decorated function; the call runs to its end
Call ==
    /\ pc = "idle"
    /\ \E a \in CallArgs :
        LET r == wrapper(fs, a)
        IN /\ args' = a
           /\ fs_start' = fs
           /\ fs' = r.fs
           /\ out' = [raised |-> r.raised, ret |-> r.ret, stage |-> r.stage,
                      path_list |-> r.path_list, written |-> r.written,
                      pairs |-> r.pairs]
           /\ pc' = "done"

Next == Call

Spec == Init /\ [][Next]_vars

TypeOK ==
    /\ pc \in {"idle", "done"}
    /\ out.raised \in {None, "ValueError", "TypeError", "NameError", "IsADirectoryError",
                        "FileNotFoundError", "IOError", "PermissionError"}
    /\ out.ret.kind \in {"None", "item", "list"}
    /\ out.stage \in {"idle", "validate_arguments", "process_path_list", "func", "loop", "return"}

(***************************************************************************)
(* Direct calls of the planner, the mode selection and the writer          *)
(***************************************************************************)
\* the data handed to a direct call: a str and a bytes
DataItems == {Item("str", 1), Item("bytes", 1)}

\* the data_format arguments of determine_mode_and_encoding
DataFormats == {None, "text", "binary"}

\* the mode and encoding arguments callers hand to save_data_to_file
ModeArgs == {"w", "wb", "a", "ab", "r"}
EncodingArgs == {None, "utf-8"}

\* the filesystems a direct call can start from: directory t exists and is
\* writable or not, f is a regular file, d does not exist, t/a.txt is
\* absent, a writable or read-only file or a directory, and a.txt in the
\* working directory is absent or a file
InitFSDirect ==
    {[p \in {PathT, PathF} \cup (IF ta = "absent" THEN {} ELSE {PathTA})
                           \cup (IF a = "absent" THEN {} ELSE {PathA})
        |-> IF p = PathT THEN (IF tw THEN DirEntry ELSE ReadOnly(DirEntry))
            ELSE IF p = PathTA /\ ta = "dir" THEN DirEntry
            ELSE IF p = PathTA /\ ta = "rofile" THEN ReadOnly(FileEntry(OldContent))
            ELSE FileEntry(OldContent)]
     : ta \in {"absent", "file", "rofile", "dir"}, a \in {"absent", "file"}, tw \in BOOLEAN}

InitDirect ==
    /\ fs \in InitFSDirect
    /\ fs_start = fs
    /\ args = [op |-> "none"]
    /\ out = [err |-> None]
    /\ pc = "idle"

\* process_path_list(path_list, create_dirs, duplicate_strategy)
PlanPaths ==
    /\ pc = "idle"
    /\ \E l \in SeqsUpTo(DirectPaths, MaxPlan), cd \in BOOLEAN, st \in DuplicateStrategy :
        LET r == process_path_list(fs, [kind |-> "list", paths |-> l], cd, st)
        IN /\ args' = [op |-> "process_path_list", path_list |-> l, create_dirs |-> cd,
                       duplicate_strategy |-> st]
           /\ out' = [err |-> r.err, path_list |-> r.path_list.paths]
           /\ fs_start' = fs
           /\ fs' = r.fs
           /\ pc' = "planned"

\* the writer called on a planned path, as the loop body of wrapper calls
\* it: mode and encoding from determine_mode_and_encoding(data, None)
SavePlanned ==
    /\ pc = "planned"
    /\ out.err = None
    /\ \E i \in 1..Len(out.path_list), data \in DataItems :
        LET me == determine_mode_and_encoding(data, None, FALSE)
            r == save_data_to_file(fs, data, out.path_list[i], me.mode, me.encoding)
        IN /\ args' = [op |-> "save_data_to_file", data |-> data, dest |-> out.path_list[i],
                       mode |-> me.mode, encoding |-> me.encoding,
                       data_format |-> None, append |-> FALSE]
           /\ out' = [err |-> r.err]
           /\ fs_start' = fs
           /\ fs' = r.fs
           /\ pc' = "saved_planned"

\* determine_mode_and_encoding(data, data_format, append)
DetermineMode ==
    /\ pc = "idle"
    /\ \E data \in DataItems, df \in DataFormats, ap \in BOOLEAN :
        LET me == determine_mode_and_encoding(data, df, ap)
        IN /\ args' = [op |-> "determine_mode_and_encoding", data |-> data,
                       data_format |-> df, append |-> ap]
           /\ out' = me
    /\ pc' = "determined"
    /\ UNCHANGED <<fs, fs_start>>

\* save_data_to_file(data, dest, mode, encoding) with the mode and encoding
\* determine_mode_and_encoding returned
SaveDetermined ==
    /\ pc = "determined"
    /\ out.err = None
    /\ \E dest \in DirectPaths :
        LET r == save_data_to_file(fs, args.data, dest, out.mode, out.encoding)
        IN /\ args' = [op |-> "save_data_to_file", data |-> args.data, dest |-> dest,
                       mode |-> out.mode, encoding |-> out.encoding,
                       data_format |-> args.data_format, append |-> args.append]
           /\ out' = [err |-> r.err]
           /\ fs_start' = fs
           /\ fs' = r.fs
           /\ pc' = "saved_determined"

\* save_data_to_file(data, dest, mode, encoding) with arguments of the
\* caller's choice
SaveDirect ==
    /\ pc = "idle"
    /\ \E data \in DataItems, dest \in DirectPaths, mode \in ModeArgs, encoding \in EncodingArgs :
        LET r == save_data_to_file(fs, data, dest, mode, encoding)
        IN /\ args' = [op |-> "save_data_to_file", data |-> data, dest |-> dest,
                       mode |-> mode, encoding |-> encoding]
           /\ out' = [err |-> r.err]
           /\ fs_start' = fs
           /\ fs' = r.fs
           /\ pc' = "saved"

NextDirect == PlanPaths \/ SavePlanned \/ DetermineMode \/ SaveDetermined \/ SaveDirect

SpecDirect == InitDirect /\ [][NextDirect]_vars

TypeOKDirect ==
    /\ pc \in {"idle", "planned", "saved_planned", "determined", "saved_determined", "saved"}
    /\ out.err \in {None, "ValueError", "TypeError", "IsADirectoryError",
                     "FileNotFoundError", "IOError", "PermissionError"}
    /\ \A p \in DOMAIN fs : fs[p].kind \in {"dir", "file"}

(***************************************************************************)
(* Properties                                                              *)
(***************************************************************************)
Done == pc = "done"

\* the caller's destinations, the list process_path_list left, the items
\* the producer yields
Paths == args.path_list.paths
Resolved == out.path_list.paths
Items == Produced(args.producer)

HasDestinations == args.path_list.kind # "None"
YieldsItems == args.producer.kind \in {"value", "generator"}
FuncCalled == out.stage \in {"func", "loop", "return"}
Planned == out.stage \in {"func", "loop", "return"}

IsFileAt(f, path) == path \in DOMAIN f /\ f[path].kind = "file"
Distinct(l) == \A i, j \in 1..Len(l) : i # j => l[i] # l[j]
ExistingAtStart == {i \in 1..Len(Paths) : Paths[i] \in DOMAIN fs_start}

\* every destination is a fresh or regular-file path in an existing
\* directory, no destination is repeated, and the producer yields one item
\* per destination
PlainBatch ==
    /\ HasDestinations /\ YieldsItems
    /\ Len(Paths) = Len(Items)
    /\ Distinct(Paths)
    /\ \A i \in 1..Len(Paths) :
        /\ os_path_isdir(fs_start, os_path_dirname(Paths[i]))
        /\ ~os_path_isdir(fs_start, Paths[i])

\* the file at path holds exactly item
Holds(f, path, item) ==
    /\ IsFileAt(f, path)
    /\ Len(f[path].content) = 1
    /\ f[path].content[1].data = item
    /\ f[path].content[1].form \in {"text", "bytes"}

\* C1: under SKIP every destination that is a file when the call starts
\* holds the same contents when the call ends, with or without an error;
\* once the paths are planned, no planned path is such a file.
C1_SkipKeepsExistingFiles ==
    (Done /\ args.duplicate_strategy = "skip") =>
        /\ \A i \in 1..Len(Paths) :
            IsFileAt(fs_start, Paths[i]) =>
                Paths[i] \in DOMAIN fs /\ fs[Paths[i]] = fs_start[Paths[i]]
        /\ (Planned /\ HasDestinations) =>
            \A j \in 1..Len(Resolved) : ~IsFileAt(fs_start, Resolved[j])

\* C1 witness: a SKIP call over an existing file and a fresh path whose
\* producer yielded an item for each
C1_Witness ==
    /\ Done /\ args.duplicate_strategy = "skip"
    /\ Len(Paths) = 2 /\ IsFileAt(fs_start, Paths[1]) /\ Paths[2] \notin DOMAIN fs_start
    /\ FuncCalled /\ YieldsItems /\ Len(Items) = 2
    /\ Resolved = <<Paths[2]>>

\* C2: under OVERWRITE a call over destinations that exist as files
\* completes, and each such file then holds exactly the item paired with it.
C2_OverwriteReplaces ==
    (Done /\ args.duplicate_strategy = "overwrite" /\ PlainBatch) =>
        \A i \in 1..Len(Paths) :
            IsFileAt(fs_start, Paths[i]) =>
                out.raised = None /\ Holds(fs, Paths[i], Items[i])

\* C3: under RENAME the path substituted for a destination that exists when
\* the call starts did not exist then, and the original path is unchanged.
C3_RenameTargetsFreshPath ==
    (Done /\ args.duplicate_strategy = "rename" /\ HasDestinations /\ Planned) =>
        /\ Len(Resolved) = Len(Paths)
        /\ \A i \in ExistingAtStart :
            /\ Resolved[i] \notin DOMAIN fs_start
            /\ Paths[i] \in DOMAIN fs /\ fs[Paths[i]] = fs_start[Paths[i]]

\* C3 witness: t/a.txt and t/a_1.txt both exist and t/a.txt was renamed
\* twice, to t/a_1_2.txt
C3_Witness ==
    /\ Done /\ args.duplicate_strategy = "rename" /\ Planned
    /\ Len(Paths) >= 1 /\ Paths[1] = PathTA
    /\ PathTA \in DOMAIN fs_start /\ PathTA1 \in DOMAIN fs_start
    /\ Resolved[1] = with_name(with_name(PathTA, 1), 2)

\* C4: under SKIP, n plain destinations of which k >= 1 exist and a producer
\* of n items: the call completes, n-k files are written and, with
\* return_data, n-k items are returned.
C4_SkipWritesTheRest ==
    (Done /\ args.duplicate_strategy = "skip" /\ PlainBatch /\ ExistingAtStart # {}) =>
        /\ out.raised = None
        /\ Len(out.written) = Len(Paths) - Cardinality(ExistingAtStart)
        /\ args.return_data => Len(out.ret.items) = Len(Paths) - Cardinality(ExistingAtStart)

\* C5: with create_dirs a destination whose parent directory is missing gets
\* its parent created, the call completes and the destination is a regular
\* file holding the item paired with it.
C5_CreateDirsThenWrite ==
    (/\ Done /\ args.create_dirs
     /\ HasDestinations /\ YieldsItems /\ Len(Paths) = Len(Items) /\ Distinct(Paths)) =>
        \A i \in 1..Len(Paths) :
            os_path_dirname(Paths[i]) \notin DOMAIN fs_start =>
                /\ os_path_isdir(fs, os_path_dirname(Paths[i]))
                /\ out.raised = None
                /\ Holds(fs, Paths[i], Items[i])

\* C6: without create_dirs, a destination whose parent directory is missing
\* makes the call raise ValueError before func is called, and nothing is
\* created.
C6_MissingDirFailsEarly ==
    (/\ Done /\ ~args.create_dirs /\ HasDestinations
     /\ \E i \in 1..Len(Paths) : os_path_dirname(Paths[i]) \notin DOMAIN fs_start) =>
        /\ out.raised = "ValueError"
        /\ ~FuncCalled
        /\ fs = fs_start

\* C6 witness: the destination with the missing parent comes second
C6_Witness ==
    /\ Done /\ ~args.create_dirs /\ args.path_list.kind = "list"
    /\ Len(Paths) = 2
    /\ os_path_dirname(Paths[1]) \in DOMAIN fs_start
    /\ os_path_dirname(Paths[2]) \notin DOMAIN fs_start
    /\ out.raised = "ValueError" /\ out.stage = "process_path_list"

\* C7 as stated: with path_list None or an empty list and return_data
\* False, the call raises ValueError before func is called and before any
\* filesystem operation.
C7_NoDestinationsFailsEarly ==
    (/\ Done /\ ~args.return_data
     /\ (~HasDestinations \/ (args.path_list.kind = "list" /\ Paths = <<>>))) =>
        /\ out.raised = "ValueError"
        /\ ~FuncCalled
        /\ fs = fs_start

\* C7 amended: with path_list None and return_data False, the call raises
\* ValueError in validate_arguments, before process_path_list touches the
\* filesystem and before func is called.
C7_NoneFailsEarly ==
    (Done /\ ~args.return_data /\ ~HasDestinations) =>
        /\ out.raised = "ValueError"
        /\ out.stage = "validate_arguments"
        /\ ~FuncCalled
        /\ fs = fs_start

\* C7 witness: a call with path_list None and return_data False that
\* raised, the producer being one that would have yielded items
C7_Witness ==
    /\ Done /\ ~args.return_data /\ ~HasDestinations
    /\ args.producer.kind = "generator" /\ args.producer.n = 2
    /\ out.raised = "ValueError"

\* C8: when the number of planned paths differs from the number of items
\* the producer yields, the call ends with an error.
C8_CountMismatchIsError ==
    (/\ Done /\ HasDestinations /\ YieldsItems /\ Planned
     /\ Len(Resolved) # Len(Items)) =>
        out.raised # None

\* C8 witness: one of three destinations was skipped, none was left for the
\* items, or items ran out
C8_Witness ==
    /\ Done /\ HasDestinations /\ YieldsItems /\ Planned
    /\ Len(Resolved) = 0 /\ Len(Items) = 2 /\ Len(Paths) = 2
    /\ out.raised = "ValueError" /\ out.stage = "loop"

\* C9: a call that completes with return_data returns the items in
\* production order, bare when there is one and a list when there are
\* more; without return_data it returns None; and a call over fresh plain
\* destinations, one per item, does complete, with every file written.
C9_ReturnsProducedData ==
    Done =>
        /\ (out.stage = "return" /\ args.return_data /\ Len(Items) >= 1) =>
            /\ out.ret.items = Items
            /\ out.ret.kind = IF Len(Items) = 1 THEN "item" ELSE "list"
        /\ (out.stage = "return" /\ ~args.return_data) => out.ret = RetNone
        /\ (PlainBatch /\ args.return_data /\ Len(Items) >= 1 /\ ExistingAtStart = {}) =>
            /\ out.raised = None
            /\ out.ret.items = Items
            /\ \A i \in 1..Len(Paths) : IsFileAt(fs, Paths[i])

\* C10: under RENAME the planned list has no path twice, for caller lists
\* of fresh paths and existing files whose repeated entries, if any, are
\* existing files.
C10_RenameCollisionFree ==
    (/\ Done /\ args.duplicate_strategy = "rename" /\ HasDestinations /\ Planned
     /\ \A i \in 1..Len(Paths) : ~os_path_isdir(fs_start, Paths[i])
     /\ \A i, j \in 1..Len(Paths) : (i # j /\ Paths[i] = Paths[j]) => Paths[i] \in DOMAIN fs_start) =>
        Distinct(Resolved)

\* C11: under SKIP, with one item produced per destination, the loop pairs
\* and saves every item only with the destination that had the item's index
\* in the caller's path_list, and the item of a skipped destination is
\* paired with and saved to no path.
C11_SkipPairingKeepsPositions ==
    (Done /\ args.duplicate_strategy = "skip" /\ PlainBatch) =>
        /\ \A k \in 1..Len(out.pairs) : out.pairs[k][1] = Paths[out.pairs[k][2].id]
        /\ \A k \in 1..Len(out.written) : out.written[k][1] = Paths[out.written[k][2].id]
        /\ \A i \in ExistingAtStart :
            /\ \A k \in 1..Len(out.pairs) : out.pairs[k][2].id # i
            /\ \A k \in 1..Len(out.written) : out.written[k][2].id # i

\* the parent directory of path exists: the working directory for a bare
\* name, else a directory of the filesystem
ParentExists(f, path) ==
    os_path_dirname(path) = <<>> \/ os_path_isdir(f, os_path_dirname(path))

\* the parent directory of path is missing
ParentMissing(f, path) ==
    os_path_dirname(path) # <<>> /\ ~os_path_exists(f, os_path_dirname(path))

\* C12: a path process_path_list returned has an existing parent directory,
\* and the writer called on it does not raise FileNotFoundError (paths
\* below a regular file left aside).
C12_PlannedPathsPassTheWriter ==
    (pc = "saved_planned" /\ ~IsFileAt(fs_start, os_path_dirname(args.dest))) =>
        /\ ParentExists(fs_start, args.dest)
        /\ out.err # "FileNotFoundError"

\* a direct or determined call of save_data_to_file has returned
Saved == pc \in {"saved", "saved_determined", "saved_planned"}

\* open() gets arguments it accepts: a valid mode, no encoding with a
\* binary mode
OpenArgsValid ==
    /\ args.mode \in {"w", "wb", "a", "ab"}
    /\ ~(args.mode \in {"wb", "ab"} /\ args.encoding # None)

\* the filesystem refuses to open dest for writing: its parent is not a
\* directory, or permission is denied
FsRefuses(f, dest) ==
    /\ ~os_path_isdir(f, dest)
    /\ os_path_exists(f, os_path_dirname(dest))
    /\ (~os_path_isdir(f, os_path_dirname(dest)) \/ permission_denied(f, dest))

\* C13 as stated: a destination that is a directory raises
\* IsADirectoryError and one whose parent is missing FileNotFoundError, both
\* leaving the filesystem as it was; every other refusal of the filesystem
\* to open or write the file is raised as IOError.
C13_FailuresByCategory ==
    (Saved /\ OpenArgsValid) =>
        /\ os_path_isdir(fs_start, args.dest) =>
            out.err = "IsADirectoryError" /\ fs = fs_start
        /\ (~os_path_isdir(fs_start, args.dest) /\ ParentMissing(fs_start, args.dest)) =>
            out.err = "FileNotFoundError" /\ fs = fs_start
        /\ FsRefuses(fs_start, args.dest) => out.err = "IOError"

\* C13 amended: as C13, except that a refusal for lack of permission is
\* raised as PermissionError, not as IOError; neither changes the
\* filesystem.
C13_FailuresByCategoryButPermission ==
    (Saved /\ OpenArgsValid) =>
        /\ os_path_isdir(fs_start, args.dest) =>
            out.err = "IsADirectoryError" /\ fs = fs_start
        /\ (~os_path_isdir(fs_start, args.dest) /\ ParentMissing(fs_start, args.dest)) =>
            out.err = "FileNotFoundError" /\ fs = fs_start
        /\ FsRefuses(fs_start, args.dest) =>
            /\ out.err = IF os_path_isdir(fs_start, os_path_dirname(args.dest))
                          THEN "PermissionError" ELSE "IOError"
            /\ fs = fs_start

\* C13 witness: a write to the read-only file t/a.txt raised PermissionError
C13_Witness ==
    /\ pc = "saved" /\ OpenArgsValid
    /\ args.dest = PathTA /\ IsFileAt(fs_start, PathTA) /\ ~fs_start[PathTA].writable
    /\ out.err = "PermissionError"

\* the mode is a text mode with encoding utf-8 / a binary mode with no
\* encoding
TextAxis(mode, encoding) == mode \in {"w", "a"} /\ encoding = "utf-8"
BinaryAxis(mode, encoding) == mode \in {"wb", "ab"} /\ encoding = None

\* C14 as stated: whenever determine_mode_and_encoding chose the mode of a
\* write that went through, str data was written on the text axis and bytes
\* data on the binary axis, and append chose "a"/"ab" over "w"/"wb".
C14_ModeFollowsDataType ==
    (pc = "saved_determined" /\ out.err = None) =>
        /\ args.data.type = "str" => TextAxis(args.mode, args.encoding)
        /\ args.data.type = "bytes" => BinaryAxis(args.mode, args.encoding)
        /\ args.append <=> args.mode \in {"a", "ab"}

\* the axis determine_mode_and_encoding is to choose: that of data_format
\* when it is given, that of the data's type when it is None
ChoosesText(data, data_format) ==
    data_format = "text" \/ (data_format = None /\ data.type = "str")

\* C14 amended: the mode and encoding follow data_format when it is "text"
\* or "binary" and the type of the data when it is None; append chooses
\* "a"/"ab" over "w"/"wb" on the same axis. This holds of what
\* determine_mode_and_encoding returns and of every write made with it.
C14_ModeFollowsFormatThenType ==
    /\ pc = "determined" =>
        /\ out.err = None
        /\ IF ChoosesText(args.data, args.data_format)
           THEN TextAxis(out.mode, out.encoding) ELSE BinaryAxis(out.mode, out.encoding)
        /\ args.append <=> out.mode \in {"a", "ab"}
    /\ pc = "saved_determined" =>
        /\ IF ChoosesText(args.data, args.data_format)
           THEN TextAxis(args.mode, args.encoding) ELSE BinaryAxis(args.mode, args.encoding)
        /\ args.append <=> args.mode \in {"a", "ab"}

\* C14 witness: bytes appended with data_format "text" went to t/a.txt on
\* the text axis
C14_Witness ==
    /\ pc = "saved_determined" /\ out.err = None
    /\ args.data.type = "bytes" /\ args.data_format = "text" /\ args.append
    /\ args.mode = "a" /\ args.encoding = "utf-8"
    /\ args.dest = PathTA /\ Len(fs[PathTA].content) = 2

====
